---- MODULE Spec2Model ----
(***************************************************************************)
(* Session state, quota gate and broadcast fan-out of the Call_Orit bot    *)
(* (src/main.py).  Every incoming message is handled by its own asyncio    *)
(* task; a task runs atomically from one network await to the next (the    *)
(* sqlite3 calls and the MemoryStorage FSM calls never yield).             *)
(***************************************************************************)
EXTENDS Integers, Sequences, FiniteSets, Bags, TLC

\* ------------------------------------------------------------------ bounds
MaxEvents == 3          \* messages received in one behaviour of Spec
MaxSerialEvents == 4    \* messages received in one behaviour of SpecSerial
MaxInFlight == 2        \* handler tasks that may be suspended at the same time
MaxLongRun == 2010      \* messages received in one behaviour of SpecSubscriber

\* --------------------------------------------------------- program constants
ADMIN_ID == 1
FREE_USES_LIMIT == 10
UNLIMITED == 999

UserIds == {1, 2}

Idle == "Idle"
await_photo == "await_photo"
await_broadcast == "await_broadcast"
GenStates == {Idle, await_photo, await_broadcast}

\* Classes of incoming messages, by what the filters of the handlers look at.
\* "text" is a free text no filter names, "sticker" a message with neither text
\* nor photo; "photo" carries no text.
Kinds == {"stats", "users", "broadcast", "find", "start", "profile", "admin",
          "activate", "buy", "prompt", "photo", "help", "text", "sticker"}

\* The argument of /activate and /find: a user id, BadArg (not a number) or
\* NoArg (the command alone, or more than one argument).
NoArg == 0
BadArg == -1
ActivateArgs == UserIds \cup {BadArg, NoArg}

VARIABLES
    users,        \* the table users: a set of rows
    fsm,          \* dialog state of each user (MemoryStorage)
    tasks,        \* the bag of handler tasks in flight
    now,          \* number of messages received so far; the clock of last_active
    CHANNEL_ID,   \* whether an announcement channel is configured
    nSuccess,     \* history: per user, photo handlings whose try body completed
    activated,    \* history: per user, whether /activate updated the row
    startUses     \* history: per user, uses_left of the row when first seen

vars == <<users, fsm, tasks, now, CHANNEL_ID, nSuccess, activated, startUses>>

\* ------------------------------------------------------------ the user store
HasRow(tbl, id) == \E r \in tbl : r.user_id = id
RowOf(tbl, id) == CHOOSE r \in tbl : r.user_id = id
RowsOf(tbl, id) == {r \in tbl : r.user_id = id}

\* INSERT ... ON CONFLICT(user_id) DO UPDATE SET last_active
ensure_user_reset(tbl, id, t) ==
    {r \in tbl : r.user_id # id}
        \cup {[user_id |-> id, uses_left |-> FREE_USES_LIMIT, last_active |-> t]}

ensure_user(tbl, id, t) ==
    IF HasRow(tbl, id)
    THEN {IF r.user_id = id THEN [r EXCEPT !.last_active = t] ELSE r : r \in tbl}
    ELSE tbl \cup {[user_id |-> id, uses_left |-> FREE_USES_LIMIT, last_active |-> t]}

\* SELECT uses_left ... ; row[0] if row else 0
select_uses_left(tbl, id) == IF HasRow(tbl, id) THEN RowOf(tbl, id).uses_left ELSE 0

\* UPDATE users SET uses_left = uses_left - 1 WHERE user_id = ?
decrement_use_everyone(tbl, id) ==
    {[r EXCEPT !.uses_left = @ - 1] : r \in tbl}

decrement_use(tbl, id) ==
    {IF r.user_id = id THEN [r EXCEPT !.uses_left = @ - 1] ELSE r : r \in tbl}

\* UPDATE users SET uses_left = 999 WHERE user_id = ?
activate_subscription_upsert(tbl, id) ==
    {r \in tbl : r.user_id # id}
        \cup {[user_id |-> id, uses_left |-> UNLIMITED, last_active |-> 0]}

activate_subscription(tbl, id) ==
    {IF r.user_id = id THEN [r EXCEPT !.uses_left = UNLIMITED] ELSE r : r \in tbl}

rowcount(tbl, id) == Cardinality(RowsOf(tbl, id))

\* SELECT user_id FROM users: the rows in rowid (= user_id) order
RECURSIVE SortedSeq(_)
SortedSeq(S) ==
    IF S = {} THEN <<>>
    ELSE LET m == CHOOSE x \in S : \A y \in S : x <= y
         IN <<m>> \o SortedSeq(S \ {m})

select_user_ids(tbl) == SortedSeq({r.user_id : r \in tbl})

\* ------------------------------------------------------------- handler tasks
\* One record shape for every task: the handler, the message it handles, the
\* await it is suspended at (pc), the handler's locals, and what it has sent.
NoTask ==
    [handler |-> "none", from |-> 0, kind |-> "none", arg |-> NoArg,
     pc |-> "none", exit |-> "none",
     uses_left |-> 0,                    \* handle_photo: the value read at the gate
     completed |-> FALSE,                \* handle_photo: the try body ran to its end
     snapshot |-> <<>>, idx |-> 0,       \* process_broadcast: users, loop position
     success |-> 0, failed |-> 0,        \* process_broadcast: the counters
     log |-> <<>>,                       \* deliveries attempted: <<chat_id, ok>>
     channel |-> "none",                 \* the notification of CHANNEL_ID
     say |-> "none",                     \* the reply a final send is carrying
     replies |-> {},                     \* replies delivered to the sender
     data |-> <<>>]                      \* the figures of the delivered report

NewTask(h, m) == [NoTask EXCEPT !.handler = h, !.from = m.from, !.kind = m.kind,
                                !.arg = m.arg, !.exit = "returned"]

\* What one atomic run of a task yields: the task at its next await (or done),
\* the table and the dialog states.
R(t, tbl, st) == [task |-> t, users |-> tbl, fsm |-> st]

At(t, p) == [t EXCEPT !.pc = p]
Raise(t) == [t EXCEPT !.pc = "done", !.exit = "raised"]
Return(t) == [t EXCEPT !.pc = "done"]
Delivered(t, r) == [t EXCEPT !.replies = @ \cup {r}]
\* a last `await message.answer(...)`: nothing follows it in the handler
FinalSend(t, r) == [t EXCEPT !.pc = "reply", !.say = r]

\* state.clear() and state.set_state(...)
clear(st, id) == [st EXCEPT ![id] = Idle]
set_state(st, id, s) == [st EXCEPT ![id] = s]

\* message.text is set (not None, not empty)
HasText(kind) == kind \notin {"photo", "sticker"}

\* message.from_user.id != ADMIN_ID
is_admin_anyone(id) == TRUE
is_admin(id) == id = ADMIN_ID

\* if uses_left <= 0
quota_exhausted_strict(uses) == uses < 0
quota_exhausted(uses) == uses <= 0

\* The dispatcher tries the handlers in the order they are registered and runs
\* the first whose filters accept the message.
Route_photo_in_any_state(state, kind) ==
    CASE kind = "stats" -> "cmd_stats"
      [] kind = "users" -> "cmd_list_users"
      [] kind = "broadcast" -> "cmd_broadcast"
      [] state = await_broadcast -> "process_broadcast"
      [] kind = "find" -> "cmd_find_user"
      [] kind = "start" -> "cmd_start"
      [] kind = "profile" -> "cmd_profile"
      [] kind = "admin" -> "cmd_admin"
      [] kind = "activate" -> "cmd_activate_user"
      [] kind = "buy" -> "cmd_buy"
      [] kind = "prompt" -> "prompt_photo"
      [] kind = "photo" -> "handle_photo"
      [] kind = "help" -> "cmd_help"
      [] OTHER -> "unhandled"

Route(state, kind) ==
    CASE kind = "stats" -> "cmd_stats"
      [] kind = "users" -> "cmd_list_users"
      [] kind = "broadcast" -> "cmd_broadcast"
      [] state = await_broadcast -> "process_broadcast"
      [] kind = "find" -> "cmd_find_user"
      [] kind = "start" -> "cmd_start"
      [] kind = "profile" -> "cmd_profile"
      [] kind = "admin" -> "cmd_admin"
      [] kind = "activate" -> "cmd_activate_user"
      [] kind = "buy" -> "cmd_buy"
      [] kind = "prompt" -> "prompt_photo"
      [] kind = "photo" /\ state = await_photo -> "handle_photo"
      [] kind = "help" -> "cmd_help"
      [] OTHER -> "unhandled"

\* ------------------------------------------------------------ handle_photo
\* From the dispatch to the first await: ensure_user (its sqlite3.Error is
\* swallowed), the quota read (its error leaves the handler), the gate.
\* e1, e2: whether the first and the second database call succeed.
handle_photo_start(m, tbl, st, t, e1, e2) ==
    LET tbl1 == IF e1 THEN ensure_user(tbl, m.from, t) ELSE tbl
        uses == select_uses_left(tbl1, m.from)
        tk == [NewTask("handle_photo", m) EXCEPT !.uses_left = uses]
    IN  IF ~e2 THEN R(Raise(NewTask("handle_photo", m)), tbl1, st)
        ELSE IF quota_exhausted(uses) THEN R(At(tk, "deny"), tbl1, st)
        ELSE R(At(tk, "processing"), tbl1, st)

\* except Exception: the generic failure message is sent next
photo_failed_charged(tk, tbl, st) ==
    R(At(tk, "error_reply"), decrement_use(tbl, tk.from), st)

photo_failed(tk, tbl, st) == R(At(tk, "error_reply"), tbl, st)

\* UPDATE uses_left = uses_left - 1, the last statement of the try body
decrement(tk, tbl, st, e) ==
    IF e THEN R([At(tk, "delete") EXCEPT !.completed = TRUE],
                decrement_use(tbl, tk.from), st)
    ELSE photo_failed(tk, tbl, st)

Notified(tk, ok) == [tk EXCEPT !.channel = IF ok THEN "sent" ELSE "failed"]

\* One resumption: the awaited call returned (ok) or raised (~ok).
\* e: whether the database call of this run, if any, succeeds.
handle_photo_step(tk, tbl, st, ok, e, ch) ==
    CASE tk.pc = "deny" ->
            IF ok THEN R(Return(Delivered(tk, "quota_denied")), tbl, clear(st, tk.from))
            ELSE R(Raise(tk), tbl, st)
      [] tk.pc = "processing" ->
            IF ok THEN R(At(Delivered(tk, "processing"), "download"), tbl, st)
            ELSE R(Raise(tk), tbl, st)
      [] tk.pc = "download" ->
            IF ok THEN R(At(tk, "inference"), tbl, st) ELSE photo_failed(tk, tbl, st)
      [] tk.pc = "inference" ->
            IF ok THEN R(At(tk, "deliver"), tbl, st) ELSE photo_failed(tk, tbl, st)
      [] tk.pc = "deliver" ->
            IF ~ok THEN photo_failed(tk, tbl, st)
            ELSE IF ch THEN R(At(Delivered(tk, "result"), "channel"), tbl, st)
            ELSE decrement(Delivered(tk, "result"), tbl, st, e)
      [] tk.pc = "channel" -> decrement(Notified(tk, ok), tbl, st, e)
      [] tk.pc = "error_reply" ->
            IF ok THEN R(At(Delivered(tk, "error"), "delete"), tbl, st)
            ELSE R([At(tk, "delete") EXCEPT !.exit = "raised"], tbl, st)
      [] tk.pc = "delete" ->
            R(At(tk, "done"), tbl, clear(st, tk.from))

\* ------------------------------------------------------- process_broadcast
after_loop(tk, ch) == At(tk, IF ch THEN "bc_channel" ELSE "bc_report")

next_target(tk, ch) ==
    IF tk.idx + 1 > Len(tk.snapshot) THEN after_loop(tk, ch)
    ELSE [At(tk, "bc_send") EXCEPT !.idx = @ + 1]

process_broadcast_start(m, tbl, st, e1, ch) ==
    LET tk == NewTask("process_broadcast", m)
        snap == select_user_ids(tbl)
    IN  IF ~HasText(m.kind) THEN R(At(tk, "warn"), tbl, st)
        ELSE IF ~e1 THEN R(At(tk, "bc_error"), tbl, st)
        ELSE R(next_target([tk EXCEPT !.snapshot = snap], ch), tbl, st)

\* except Exception: failed += 1, and the loop goes on
send_failed_aborts(tk, ch) ==
    after_loop([tk EXCEPT !.failed = @ + 1,
                          !.log = Append(@, <<tk.snapshot[tk.idx], FALSE>>)], ch)

send_failed(tk, ch) ==
    next_target([tk EXCEPT !.failed = @ + 1,
                           !.log = Append(@, <<tk.snapshot[tk.idx], FALSE>>)], ch)

process_broadcast_step_rereads(tk, tbl, st, ok, ch) ==
    LET live == [tk EXCEPT !.snapshot = select_user_ids(tbl)] IN
    CASE tk.pc = "warn" ->
            IF ok THEN R(Return(Delivered(tk, "warning")), tbl, clear(st, tk.from))
            ELSE R(Raise(tk), tbl, st)
      [] tk.pc = "bc_send" ->
            IF ok THEN R([At(live, "bc_sleep") EXCEPT
                              !.success = @ + 1,
                              !.log = Append(@, <<live.snapshot[tk.idx], TRUE>>)], tbl, st)
            ELSE R(send_failed(live, ch), tbl, st)
      [] tk.pc = "bc_sleep" -> R(next_target(live, ch), tbl, st)
      [] tk.pc = "bc_channel" -> R(At(Notified(tk, ok), "bc_report"), tbl, st)
      [] tk.pc = "bc_report" ->
            IF ok THEN R(Return([Delivered(tk, "report") EXCEPT
                                     !.data = <<tk.success, tk.failed>>]),
                         tbl, clear(st, tk.from))
            ELSE R(Raise(tk), tbl, clear(st, tk.from))
      [] tk.pc = "bc_error" ->
            IF ok THEN R(Return(Delivered(tk, "broadcast_failed")), tbl, clear(st, tk.from))
            ELSE R(Raise(tk), tbl, clear(st, tk.from))

process_broadcast_step(tk, tbl, st, ok, ch) ==
    CASE tk.pc = "warn" ->
            IF ok THEN R(Return(Delivered(tk, "warning")), tbl, clear(st, tk.from))
            ELSE R(Raise(tk), tbl, st)
      [] tk.pc = "bc_send" ->
            IF ok THEN R([At(tk, "bc_sleep") EXCEPT
                              !.success = @ + 1,
                              !.log = Append(@, <<tk.snapshot[tk.idx], TRUE>>)], tbl, st)
            ELSE R(send_failed(tk, ch), tbl, st)
      [] tk.pc = "bc_sleep" -> R(next_target(tk, ch), tbl, st)
      [] tk.pc = "bc_channel" -> R(At(Notified(tk, ok), "bc_report"), tbl, st)
      [] tk.pc = "bc_report" ->
            IF ok THEN R(Return([Delivered(tk, "report") EXCEPT
                                     !.data = <<tk.success, tk.failed>>]),
                         tbl, clear(st, tk.from))
            ELSE R(Raise(tk), tbl, clear(st, tk.from))
      [] tk.pc = "bc_error" ->
            IF ok THEN R(Return(Delivered(tk, "broadcast_failed")), tbl, clear(st, tk.from))
            ELSE R(Raise(tk), tbl, clear(st, tk.from))

\* ---------------------------------------------------------------- statistics
RECURSIVE SumUses(_)
SumUses(tbl) ==
    IF tbl = {} THEN 0
    ELSE LET r == CHOOSE x \in tbl : TRUE IN r.uses_left + SumUses(tbl \ {r})

\* (total_users, total_uses, paid_users); (0, 0, 0) on sqlite3.Error
get_user_stats(tbl, e) ==
    IF e THEN <<Cardinality(tbl), SumUses(tbl),
                Cardinality({r \in tbl : r.uses_left < FREE_USES_LIMIT})>>
    ELSE <<0, 0, 0>>

get_generation_count(tbl, e) ==
    IF e THEN Cardinality({r \in tbl : r.uses_left < FREE_USES_LIMIT}) ELSE 0

\* ------------------------------------------------- the administrator's commands
cmd_stats_start(m, tbl, st, e1, e2) ==
    LET tk == NewTask("cmd_stats", m) IN
    IF ~is_admin(m.from) THEN R(FinalSend(tk, "no_access"), tbl, st)
    ELSE R([FinalSend(tk, "stats") EXCEPT
                !.data = <<get_user_stats(tbl, e1)[1], get_user_stats(tbl, e1)[3],
                           get_generation_count(tbl, e2)>>], tbl, st)

cmd_list_users_start(m, tbl, st, e1) ==
    LET tk == NewTask("cmd_list_users", m) IN
    IF ~is_admin(m.from) THEN R(FinalSend(tk, "no_access"), tbl, st)
    ELSE IF ~e1 THEN R(FinalSend(tk, "users_failed"), tbl, st)
    ELSE IF tbl = {} THEN R(FinalSend(tk, "no_users"), tbl, st)
    ELSE R(FinalSend(tk, "users_list"), tbl, st)

cmd_broadcast_start(m, tbl, st) ==
    LET tk == NewTask("cmd_broadcast", m) IN
    IF ~is_admin(m.from) THEN R(FinalSend(tk, "no_access"), tbl, st)
    ELSE R(At(tk, "ask_text"), tbl, st)

cmd_broadcast_step(tk, tbl, st, ok) ==
    IF ok THEN R(Return(Delivered(tk, "ask_text")), tbl,
                 set_state(st, tk.from, await_broadcast))
    ELSE R(Raise(tk), tbl, st)

cmd_find_user_start(m, tbl, st, e1) ==
    LET tk == NewTask("cmd_find_user", m) IN
    IF ~is_admin(m.from) THEN R(FinalSend(tk, "no_access"), tbl, st)
    ELSE IF m.arg = NoArg THEN R(FinalSend(tk, "usage"), tbl, st)
    ELSE IF m.arg = BadArg THEN R(FinalSend(tk, "bad_id"), tbl, st)
    ELSE IF ~e1 THEN R(FinalSend(tk, "find_failed"), tbl, st)
    ELSE IF HasRow(tbl, m.arg)
         THEN R([FinalSend(tk, "found") EXCEPT !.data = <<RowOf(tbl, m.arg).uses_left>>],
                tbl, st)
    ELSE R(FinalSend(tk, "not_found"), tbl, st)

cmd_admin_start(m, tbl, st, e1) ==
    LET tk == NewTask("cmd_admin", m) IN
    IF ~is_admin(m.from) THEN R(FinalSend(tk, "no_access"), tbl, st)
    ELSE R([FinalSend(tk, "admin_panel") EXCEPT !.data = get_user_stats(tbl, e1)],
           tbl, st)

cmd_activate_user_start(m, tbl, st, e1) ==
    LET tk == NewTask("cmd_activate_user", m) IN
    IF ~is_admin(m.from) THEN R(FinalSend(tk, "no_access"), tbl, st)
    ELSE IF m.arg = NoArg THEN R(FinalSend(tk, "usage"), tbl, st)
    ELSE IF m.arg = BadArg THEN R(FinalSend(tk, "bad_id"), tbl, st)
    ELSE IF ~e1 THEN R(FinalSend(tk, "activate_failed"), tbl, st)
    ELSE IF rowcount(tbl, m.arg) > 0
         THEN R(At(tk, "activated"), activate_subscription(tbl, m.arg), st)
    ELSE R(FinalSend(tk, "not_found"), activate_subscription(tbl, m.arg), st)

cmd_activate_user_step(tk, tbl, st, ok) ==
    CASE tk.pc = "activated" ->
            IF ok THEN R(At(Delivered(tk, "activated"), "notify"), tbl, st)
            ELSE R(Raise(tk), tbl, st)
      [] tk.pc = "notify" ->
            R(Return([tk EXCEPT !.log = Append(@, <<tk.arg, ok>>)]), tbl, st)

\* ------------------------------------------------------ everybody's commands
cmd_start_start(m, tbl, st, t, e1) ==
    R(At(NewTask("cmd_start", m), "menu"),
      IF e1 THEN ensure_user(tbl, m.from, t) ELSE tbl, st)

cmd_start_step(tk, tbl, st, ok) ==
    IF ok THEN R(Return(Delivered(tk, "menu")), tbl, clear(st, tk.from))
    ELSE R(Raise(tk), tbl, st)

cmd_profile_start(m, tbl, st, t, e1, e2) ==
    LET tbl1 == IF e1 THEN ensure_user(tbl, m.from, t) ELSE tbl
        tk == NewTask("cmd_profile", m)
    IN  IF ~e2 THEN R(Raise(tk), tbl1, st)
        ELSE R([FinalSend(tk, "profile") EXCEPT
                    !.data = <<select_uses_left(tbl1, m.from)>>], tbl1, st)

cmd_buy_start(m, tbl, st) == R(FinalSend(NewTask("cmd_buy", m), "pay"), tbl, st)

cmd_help_start(m, tbl, st) == R(FinalSend(NewTask("cmd_help", m), "help"), tbl, st)

prompt_photo_start(m, tbl, st) == R(At(NewTask("prompt_photo", m), "ask_photo"), tbl, st)

prompt_photo_step(tk, tbl, st, ok) ==
    IF ok THEN R(Return(Delivered(tk, "ask_photo")), tbl,
                 set_state(st, tk.from, await_photo))
    ELSE R(Raise(tk), tbl, st)

\* No handler accepts the message: the dispatcher drops it.
unhandled_start(m, tbl, st) == R(Return(NewTask("unhandled", m)), tbl, st)

\* The last send of a handler: `return await message.answer(...)`,
\* `await send_photo_or_text(...)`.
reply_step(tk, tbl, st, ok) ==
    IF ok THEN R(Return(Delivered(tk, tk.say)), tbl, st) ELSE R(Raise(tk), tbl, st)

\* ------------------------------------------------------------ initial state
\* The table outlives the process (users.db); the dialog states do not.  At
\* start the table is empty, or holds the administrator's new account, or
\* also the account of a user who has one free use left.
LAST_FREE_USE == 1

InitRow(u) ==
    [user_id |-> u,
     uses_left |-> IF u = ADMIN_ID THEN FREE_USES_LIMIT ELSE LAST_FREE_USE,
     last_active |-> 0]

InitTables == {{InitRow(u) : u \in D} : D \in {{}, {ADMIN_ID}, UserIds}}

Init ==
    /\ users \in InitTables
    /\ fsm = [u \in UserIds |-> Idle]
    /\ tasks = EmptyBag
    /\ now = 0
    /\ CHANNEL_ID \in BOOLEAN
    /\ nSuccess = [u \in UserIds |-> 0]
    /\ activated = [u \in UserIds |-> FALSE]
    /\ startUses = [u \in UserIds |-> select_uses_left(users, u)]

\* ------------------------------------------------------------------ actions
Msg(u, k, a) == [from |-> u, kind |-> k, arg |-> a]

Tasks == BagToSet(tasks)
Done == {t \in Tasks : t.pc = "done"}
InFlight == BagCardinality(tasks)

\* A message may be received concurrently with the tasks in flight ...
Admit == now < MaxEvents /\ InFlight < MaxInFlight
\* ... or only when no handling is in progress
AdmitSerial == now < MaxSerialEvents /\ InFlight = 0
AdmitLong == now < MaxLongRun /\ InFlight = 0

\* A handler that touches neither the table nor the dialog states after its
\* first await runs to its end in the step that starts it: its remaining
\* sends commute with every step of every other task.
RunOut(tk, ok1, ok2) ==
    IF tk.pc = "reply" THEN reply_step(tk, {}, <<>>, ok1).task
    ELSE IF tk.pc = "activated"
         THEN LET t1 == cmd_activate_user_step(tk, {}, <<>>, ok1).task
              IN  IF t1.pc = "notify" THEN cmd_activate_user_step(t1, {}, <<>>, ok2).task
                  ELSE t1
    ELSE tk

History(old, r) ==
    /\ nSuccess' = IF r.task.completed /\ ~old.completed
                   THEN [nSuccess EXCEPT ![r.task.from] = @ + 1] ELSE nSuccess
    /\ activated' = IF old = NoTask /\ r.task.pc = "activated"
                    THEN [activated EXCEPT ![r.task.arg] = TRUE] ELSE activated
    /\ startUses' = [u \in UserIds |->
                        IF ~HasRow(users, u) /\ HasRow(r.users, u)
                        THEN RowOf(r.users, u).uses_left ELSE startUses[u]]

\* The dispatcher starts handler h on message <<u, k, a>>; r is what the
\* handler does up to its first await.  A finished task is a record of what
\* the handler did: it leaves the bag before anything else happens.
Begin(h, u, k, r, ok1, ok2) ==
    /\ Done = {}
    /\ Route(fsm[u], k) = h
    /\ tasks' = tasks (+) SetToBag({RunOut(r.task, ok1, ok2)})
    /\ users' = r.users
    /\ fsm' = r.fsm
    /\ now' = now + 1
    /\ History(NoTask, r)
    /\ UNCHANGED CHANNEL_ID

\* The suspended task t is resumed and runs to its next await.
Continue(t, r) ==
    /\ Done = {}
    /\ tasks' = (tasks (-) SetToBag({t})) (+) SetToBag({r.task})
    /\ users' = r.users
    /\ fsm' = r.fsm
    /\ History(t, r)
    /\ UNCHANGED <<now, CHANNEL_ID>>

\* adm: the admission rule; U: the senders; F: the outcomes of fallible calls
HandlePhoto(adm, U, F) ==
    \E u \in U, e1 \in F, e2 \in F :
        adm /\ Begin("handle_photo", u, "photo",
                     handle_photo_start(Msg(u, "photo", NoArg), users, fsm, now + 1, e1, e2),
                     TRUE, TRUE)

\* the steps that end in a database call, and those whose await cannot matter
HasDbCall(t, ch) == (t.pc = "deliver" /\ ~ch) \/ t.pc = "channel"

HandlePhotoStep(F) ==
    \E t \in Tasks, ok \in F, e \in F :
        /\ t.handler = "handle_photo"
        /\ t.pc # "done"
        /\ e \/ HasDbCall(t, CHANNEL_ID)
        /\ Continue(t, handle_photo_step(t, users, fsm, ok, e, CHANNEL_ID))

ProcessBroadcast(adm, U, K, F) ==
    \E u \in U, k \in K, e1 \in F :
        adm /\ Begin("process_broadcast", u, k,
                     process_broadcast_start(Msg(u, k, NoArg), users, fsm, e1, CHANNEL_ID),
                     TRUE, TRUE)

ProcessBroadcastStep(F) ==
    \E t \in Tasks, ok \in F :
        /\ t.handler = "process_broadcast"
        /\ t.pc # "done"
        /\ Continue(t, process_broadcast_step(t, users, fsm, ok, CHANNEL_ID))

CmdStats(adm, U, F) ==
    \E u \in U, e1 \in F, e2 \in F, ok \in F :
        adm /\ Begin("cmd_stats", u, "stats",
                     cmd_stats_start(Msg(u, "stats", NoArg), users, fsm, e1, e2), ok, TRUE)

CmdListUsers(adm, U, F) ==
    \E u \in U, e1 \in F, ok \in F :
        adm /\ Begin("cmd_list_users", u, "users",
                     cmd_list_users_start(Msg(u, "users", NoArg), users, fsm, e1), ok, TRUE)

CmdBroadcast(adm, U, F) ==
    \E u \in U, ok \in F :
        adm /\ Begin("cmd_broadcast", u, "broadcast",
                     cmd_broadcast_start(Msg(u, "broadcast", NoArg), users, fsm), ok, TRUE)

CmdBroadcastStep(F) ==
    \E t \in Tasks, ok \in F :
        /\ t.handler = "cmd_broadcast"
        /\ t.pc # "done"
        /\ Continue(t, cmd_broadcast_step(t, users, fsm, ok))

CmdFindUser(adm, U, F) ==
    \E u \in U, a \in ActivateArgs, e1 \in F, ok \in F :
        adm /\ Begin("cmd_find_user", u, "find",
                     cmd_find_user_start(Msg(u, "find", a), users, fsm, e1), ok, TRUE)

CmdAdmin(adm, U, F) ==
    \E u \in U, e1 \in F, ok \in F :
        adm /\ Begin("cmd_admin", u, "admin",
                     cmd_admin_start(Msg(u, "admin", NoArg), users, fsm, e1), ok, TRUE)

CmdActivateUser(adm, U, A, F) ==
    \E u \in U, a \in A, e1 \in F, ok1 \in F, ok2 \in F :
        adm /\ Begin("cmd_activate_user", u, "activate",
                     cmd_activate_user_start(Msg(u, "activate", a), users, fsm, e1), ok1, ok2)

CmdStart(adm, U, F) ==
    \E u \in U, e1 \in F :
        adm /\ Begin("cmd_start", u, "start",
                     cmd_start_start(Msg(u, "start", NoArg), users, fsm, now + 1, e1),
                     TRUE, TRUE)

CmdStartStep(F) ==
    \E t \in Tasks, ok \in F :
        /\ t.handler = "cmd_start"
        /\ t.pc # "done"
        /\ Continue(t, cmd_start_step(t, users, fsm, ok))

CmdProfile(adm, U, F) ==
    \E u \in U, e1 \in F, e2 \in F, ok \in F :
        adm /\ Begin("cmd_profile", u, "profile",
                     cmd_profile_start(Msg(u, "profile", NoArg), users, fsm, now + 1, e1, e2),
                     ok, TRUE)

CmdBuy(adm, U, F) ==
    \E u \in U, ok \in F :
        adm /\ Begin("cmd_buy", u, "buy", cmd_buy_start(Msg(u, "buy", NoArg), users, fsm),
                     ok, TRUE)

CmdHelp(adm, U, F) ==
    \E u \in U, ok \in F :
        adm /\ Begin("cmd_help", u, "help", cmd_help_start(Msg(u, "help", NoArg), users, fsm),
                     ok, TRUE)

PromptPhoto(adm, U) ==
    \E u \in U :
        adm /\ Begin("prompt_photo", u, "prompt",
                     prompt_photo_start(Msg(u, "prompt", NoArg), users, fsm), TRUE, TRUE)

PromptPhotoStep(F) ==
    \E t \in Tasks, ok \in F :
        /\ t.handler = "prompt_photo"
        /\ t.pc # "done"
        /\ Continue(t, prompt_photo_step(t, users, fsm, ok))

Unhandled(adm, U) ==
    \E u \in U, k \in Kinds :
        adm /\ Begin("unhandled", u, k, unhandled_start(Msg(u, k, NoArg), users, fsm),
                     TRUE, TRUE)

\* The finished task leaves the event loop.
Reap ==
    \E t \in Done :
        /\ tasks' = tasks (-) SetToBag({t})
        /\ UNCHANGED <<users, fsm, now, CHANNEL_ID, nSuccess, activated, startUses>>

Steps(F) ==
    \/ HandlePhotoStep(F)
    \/ ProcessBroadcastStep(F)
    \/ CmdBroadcastStep(F)
    \/ CmdStartStep(F)
    \/ PromptPhotoStep(F)
    \/ Reap

\* The handlers that write the table or a dialog state, or run past an await.
Stateful(adm, K) ==
    \/ HandlePhoto(adm, UserIds, BOOLEAN)
    \/ ProcessBroadcast(adm, UserIds, K, BOOLEAN)
    \/ CmdBroadcast(adm, UserIds, BOOLEAN)
    \/ CmdActivateUser(adm, UserIds, ActivateArgs, BOOLEAN)
    \/ CmdStart(adm, UserIds, BOOLEAN)
    \/ CmdProfile(adm, UserIds, BOOLEAN)
    \/ PromptPhoto(adm, UserIds)

\* The handlers that only read the table and reply.
Stateless(adm) ==
    \/ CmdStats(adm, UserIds, BOOLEAN)
    \/ CmdListUsers(adm, UserIds, BOOLEAN)
    \/ CmdFindUser(adm, UserIds, BOOLEAN)
    \/ CmdAdmin(adm, UserIds, BOOLEAN)
    \/ CmdBuy(adm, UserIds, BOOLEAN)
    \/ CmdHelp(adm, UserIds, BOOLEAN)
    \/ Unhandled(adm, UserIds)

\* Every message is handled by its own task, concurrently with the others.
\* The read-only handlers end in the step that starts them and leave the
\* state as it is, so they add nothing to the interleavings: they are left to
\* SpecSerial.
RaceKinds == {"text", "start", "sticker"}

Next == Stateful(Admit, RaceKinds) \/ Steps(BOOLEAN)

Spec == Init /\ [][Next]_vars

\* The messages are handled one after another: no two handlings overlap.
NextSerial == Stateful(AdmitSerial, Kinds) \/ Stateless(AdmitSerial) \/ Steps(BOOLEAN)

SpecSerial == Init /\ [][NextSerial]_vars

\* One subscriber's long run: the first message is the administrator's
\* /activate for user SUBSCRIBER, who then asks for analyses one after another
\* (the button is pressed in Idle only); every call succeeds.
SUBSCRIBER == CHOOSE u \in UserIds : u # ADMIN_ID

AdmitFirst == now = 0 /\ InFlight = 0

NextSubscriber ==
    \/ CmdActivateUser(AdmitFirst, {ADMIN_ID}, {SUBSCRIBER}, {TRUE})
    \/ PromptPhoto(AdmitLong /\ fsm[SUBSCRIBER] = Idle, {SUBSCRIBER})
    \/ PromptPhotoStep({TRUE})
    \/ HandlePhoto(AdmitLong, {SUBSCRIBER}, {TRUE})
    \/ HandlePhotoStep({TRUE})
    \/ Reap

InitSubscriber == Init /\ users = {InitRow(u) : u \in UserIds} /\ ~CHANNEL_ID

SpecSubscriber == InitSubscriber /\ [][NextSubscriber]_vars

\* ------------------------------------------------- the user store on its own
\* The store's operations called directly, in any order.  The caller keeps a
\* record of its last call: the operation, the id, and in data the uses_left
\* of the row before the call (<<>>: no row).
MaxStoreCalls == 3      \* calls of ensure_user, and decrements per id

Called(op, id) ==
    SetToBag({[NoTask EXCEPT !.handler = op, !.from = id, !.pc = "done",
                             !.data = IF HasRow(users, id)
                                      THEN <<RowOf(users, id).uses_left>> ELSE <<>>]})

StoreEnsureUser ==
    \E id \in UserIds :
        /\ now < MaxStoreCalls
        /\ users' = ensure_user(users, id, now + 1)
        /\ now' = now + 1
        /\ tasks' = Called("ensure_user", id)
        /\ UNCHANGED <<fsm, CHANNEL_ID, nSuccess, activated, startUses>>

StoreDecrementUse ==
    \E id \in UserIds :
        /\ nSuccess[id] < MaxStoreCalls
        /\ users' = decrement_use(users, id)
        /\ nSuccess' = [nSuccess EXCEPT ![id] = @ + 1]
        /\ tasks' = Called("decrement_use", id)
        /\ UNCHANGED <<fsm, now, CHANNEL_ID, activated, startUses>>

StoreActivateSubscription ==
    \E id \in UserIds :
        /\ users' = activate_subscription(users, id)
        /\ activated' = [activated EXCEPT ![id] = HasRow(users, id)]
        /\ tasks' = Called("activate_subscription", id)
        /\ UNCHANGED <<fsm, now, CHANNEL_ID, nSuccess, startUses>>

NextStore == StoreEnsureUser \/ StoreDecrementUse \/ StoreActivateSubscription

SpecStore == Init /\ [][NextStore]_vars

\* ------------------------------------------------------------------ claims
Uses(u) == select_uses_left(users, u)
PhotoTasks == {t \in Tasks : t.handler = "handle_photo"}
BroadcastTasks == {t \in Tasks : t.handler = "process_broadcast"}
\* the photo handlings that got past the gate and ended without completing
FailedAnalyses(u) ==
    {t \in PhotoTasks : t.from = u /\ t.pc = "done" /\ ~t.completed /\ t.uses_left > 0}

\* C1: a user whose account started at the free limit and was never activated
\* has uses_left = 10 - N after N photo handlings that ran their try body to
\* the end; a handling that failed (download, inference, delivery) took nothing.
C1_QuotaMonotone ==
    \A u \in UserIds :
        (HasRow(users, u) /\ startUses[u] = FREE_USES_LIMIT /\ ~activated[u])
            => Uses(u) = FREE_USES_LIMIT - nSuccess[u]

C1_Witness ==
    \E u \in UserIds :
        /\ HasRow(users, u) /\ startUses[u] = FREE_USES_LIMIT /\ ~activated[u]
        /\ nSuccess[u] >= 1
        /\ Uses(u) = FREE_USES_LIMIT - nSuccess[u]
        /\ \E t \in FailedAnalyses(u) : "processing" \in t.replies

\* C2: with the messages handled one after another, a photo handling is at the
\* denial iff the user's uses_left (0 without a row) is <= 0, a handling that
\* got past the gate leaves uses_left one lower and never below 0: the user
\* with one use left is served once and denied next.
C2_DenialBoundary ==
    /\ \A t \in PhotoTasks :
          /\ t.pc # "done" /\ ~t.completed => t.uses_left = Uses(t.from)
          /\ t.pc # "done" => (t.pc = "deny" <=> t.uses_left <= 0)
          /\ t.completed => t.uses_left > 0 /\ Uses(t.from) = t.uses_left - 1
    /\ \A u \in UserIds : Uses(u) >= 0

C2_Witness ==
    \E t \in PhotoTasks :
        /\ t.pc = "deny" /\ t.uses_left = 0 /\ HasRow(users, t.from)
        /\ startUses[t.from] = LAST_FREE_USE /\ nSuccess[t.from] = 1

\* C3: whenever a photo handling has ended, the sender's dialog state is Idle.
C3_PhotoAlwaysClears ==
    \A t \in PhotoTasks : t.pc = "done" => fsm[t.from] = Idle

\* C4: whenever a handling by process_broadcast has ended, the sender's dialog
\* state is Idle.
C4_BroadcastAlwaysClears ==
    \A t \in BroadcastTasks : t.pc = "done" => fsm[t.from] = Idle

\* C5: the handling of a privileged command of a user other than the
\* administrator is one step that writes neither the table nor a dialog state,
\* attempts no delivery to anybody else, and replies with the denial or, if
\* that send fails, with nothing.
Privileged == {"stats", "users", "find", "activate", "broadcast", "admin"}
Intruding(t) == t.kind \in Privileged /\ t.from # ADMIN_ID

C5_AuthorizationGate ==
    [][\A t \in Tasks' :
          Intruding(t) /\ t \notin Tasks
              => /\ users' = users /\ fsm' = fsm
                 /\ t.pc = "done" /\ t.log = <<>>
                 /\ t.replies = IF t.exit = "returned" THEN {"no_access"} ELSE {}]_vars

C5_Witness ==
    \E t \in Tasks :
        /\ Intruding(t) /\ t.kind = "broadcast" /\ t.pc = "done"
        /\ t.replies = {"no_access"}
        /\ fsm[t.from] = await_photo

\* C6: once the loop of a broadcast run is over, the deliveries attempted are
\* the K ids of the snapshot, in order and once each, and with F of them failed
\* the counters and the report are success = K - F, failed = F, whether or not
\* the notification of the channel went through.
Failures(t) == Cardinality({i \in 1..Len(t.log) : ~t.log[i][2]})
LoopOver(t) == t.pc \in {"bc_channel", "bc_report"} \/ "report" \in t.replies

C6_BroadcastAccounting ==
    \A t \in BroadcastTasks :
        /\ Len(t.log) <= Len(t.snapshot)
        /\ \A i \in 1..Len(t.log) : t.log[i][1] = t.snapshot[i]
        /\ LoopOver(t) =>
              /\ Len(t.log) = Len(t.snapshot)
              /\ t.failed = Failures(t)
              /\ t.success = Len(t.snapshot) - Failures(t)
        /\ "report" \in t.replies => t.data = <<Len(t.snapshot) - Failures(t), Failures(t)>>

C6_Witness ==
    \E t \in BroadcastTasks :
        /\ t.pc = "done" /\ "report" \in t.replies
        /\ Len(t.snapshot) = 2 /\ ~t.log[1][2] /\ t.log[2][2]
        /\ t.data = <<1, 1>>
        /\ t.channel = "failed"

C8_OverdraftOnlyByRace ==
    [][\A u \in UserIds :
          (HasRow(users', u) /\ select_uses_left(users', u) < 0
                             /\ select_uses_left(users', u) < Uses(u))
              => \E t \in PhotoTasks :
                    t.from = u /\ t.uses_left > 0 /\ t.uses_left > Uses(u)]_vars

\* two photos of the user with one use left were both analysed and charged
C8_Witness ==
    \E u \in UserIds :
        /\ startUses[u] = LAST_FREE_USE /\ ~activated[u]
        /\ nSuccess[u] = 2
        /\ Uses(u) = -1

\* C9: no photo of a user whose subscription was activated is denied for quota.
C9_UnlimitedAfterActivation ==
    \A t \in PhotoTasks : activated[t.from] => t.pc # "deny"

\* C10: after ensure_user(id) the table holds exactly one row of id, with
\* uses_left 10 if there was none and the uses_left it had otherwise, and with
\* the time of the call as last_active.
EnsureCalls == {t \in Tasks : t.handler = "ensure_user"}

C10_IdempotentEnsure ==
    /\ \A u \in UserIds : Cardinality(RowsOf(users, u)) <= 1
    /\ \A t \in EnsureCalls :
          /\ Cardinality(RowsOf(users, t.from)) = 1
          /\ RowOf(users, t.from).uses_left =
                IF t.data = <<>> THEN FREE_USES_LIMIT ELSE t.data[1]
          /\ RowOf(users, t.from).last_active = now

\* the call found a row that had been decremented, or activated
C10_Witness ==
    \E t \in EnsureCalls :
        /\ t.data # <<>>
        /\ t.data[1] \in {FREE_USES_LIMIT - 1, UNLIMITED}
        /\ RowOf(users, t.from).uses_left = t.data[1]
        /\ RowOf(users, t.from).last_active = now

\* C11: a handling of /activate by cmd_activate_user for the administrator
\* changes no dialog state and
\*  - with a missing or non-numeric argument writes nothing and replies with
\*    the usage or the "must be a number" message;
\*  - for an id without a row writes nothing and replies "not found";
\*  - for an id with a row (activated before or not) sets its uses_left to 999,
\*    leaves every other row alone and replies with the success message, and
\*    the outcome of the notification sent to the user changes neither.
\* A reply whose send fails is not delivered; when the UPDATE itself fails
\* nothing is written and the reply is the failure message.
Activations(T) == {t \in T : t.handler = "cmd_activate_user" /\ t.from = ADMIN_ID}
\* the reply of a handler that ends with one send
Replied(t, r) == t.say = r /\ t.log = <<>>
                   /\ t.replies = IF t.exit = "returned" THEN {r} ELSE {}

C11_ActivateContract ==
    [][\A t \in Activations(Tasks') \ Tasks :
          /\ t.pc = "done"
          /\ fsm' = fsm
          /\ t.arg = NoArg => users' = users /\ Replied(t, "usage")
          /\ t.arg = BadArg => users' = users /\ Replied(t, "bad_id")
          /\ (t.arg \in UserIds /\ ~HasRow(users, t.arg)) =>
                /\ users' = users
                /\ Replied(t, "not_found") \/ Replied(t, "activate_failed")
          /\ (t.arg \in UserIds /\ HasRow(users, t.arg)) =>
                \/ users' = users /\ Replied(t, "activate_failed")
                \/ /\ users' = {IF r.user_id = t.arg
                                 THEN [r EXCEPT !.uses_left = UNLIMITED] ELSE r : r \in users}
                   /\ t.say = "none"
                   /\ t.replies \subseteq {"activated"}
                   /\ t.exit = "returned" => t.replies = {"activated"}
                   /\ t.log \in {<<>>, <<<<t.arg, TRUE>>>>, <<<<t.arg, FALSE>>>>}
                   /\ t.log # <<>> => t.exit = "returned"]_vars

\* a user who has used the account was activated, and the success was
\* reported although the notification of the user failed
C11_Witness ==
    \E t \in Activations(Tasks) :
        /\ t.pc = "done" /\ t.arg = SUBSCRIBER
        /\ t.replies = {"activated"} /\ t.log = <<<<t.arg, FALSE>>>>
        /\ Uses(t.arg) = UNLIMITED /\ nSuccess[t.arg] >= 1

\* C12: the subscriber count of a delivered /stats report is the number of
\* accounts with uses_left < 10, and every account that has been charged for an
\* analysis and every activated account at the sentinel 999 is among those
\* counted.
StatsReports ==
    {t \in Tasks : t.handler = "cmd_stats" /\ "stats" \in t.replies
                     /\ t.data[1] = Cardinality(users)}
Counted(u) == HasRow(users, u) /\ Uses(u) < FREE_USES_LIMIT

C12_SubscriberCount ==
    \A t \in StatsReports :
        /\ t.data[2] = Cardinality({u \in UserIds : Counted(u)})
        /\ \A u \in UserIds :
              (HasRow(users, u) /\ (nSuccess[u] >= 1 \/ (activated[u] /\ Uses(u) = UNLIMITED)))
                  => Counted(u)

\* C13: the ids a broadcast run delivers to are those of the table as it was
\* read when the run started: the list of a run never changes afterwards, the
\* deliveries follow it, and the report counts exactly its entries, whatever
\* accounts were created in the meantime.
Ids(tbl) == {r.user_id : r \in tbl}
Range(f) == {f[i] : i \in DOMAIN f}
Started(t) == t.log = <<>> /\ t.idx <= 1
Continues(t0, t) ==
    /\ t0.from = t.from /\ t0.kind = t.kind /\ t0.pc # "done"
    /\ t0.snapshot = t.snapshot
    /\ Len(t0.log) <= Len(t.log)

C13_SnapshotAtStart ==
    [][\A t \in BroadcastTasks' :
          /\ Len(t.log) <= Len(t.snapshot)
          /\ \A i \in 1..Len(t.log) : t.log[i][1] = t.snapshot[i]
          /\ "report" \in t.replies => t.data[1] + t.data[2] = Len(t.snapshot)
          /\ t \notin Tasks =>
                \/ \E t0 \in BroadcastTasks : Continues(t0, t)
                \/ /\ Started(t)
                   /\ Range(t.snapshot) \in {{}, Ids(users)}
                   /\ t.pc \in {"bc_send", "bc_channel", "bc_report"}
                         => Range(t.snapshot) = Ids(users)]_vars

\* the account of user 2 was created while the run was under way: the run
\* ended with a report of one delivery
C13_Witness ==
    \E t \in BroadcastTasks :
        /\ t.pc = "done" /\ "report" \in t.replies
        /\ t.snapshot = <<ADMIN_ID>> /\ Len(t.log) = 1
        /\ t.data[1] + t.data[2] = 1
        /\ HasRow(users, SUBSCRIBER)
        /\ RowOf(users, SUBSCRIBER).last_active > 1

\* C14: a handling in which a storage operation failed ends with a generic
\* failure reply to the sender and without the reply of the successful case.
\* With the messages handled one after another the failures show in the
\* finished task: the upsert (the sender of /start has no row), the quota read
\* (handle_photo ended before the gate although the row has uses left), the
\* profile read (cmd_profile ended before its send), the stats queries (the
\* totals are not those of the table), the decrement (the result was
\* delivered and the try body did not complete).
GenericFailure ==
    {"error", "users_failed", "find_failed", "activate_failed", "broadcast_failed"}
ToldOfFailure(t) == t.replies \cap GenericFailure # {}
UpsertFailed(t) == t.handler = "cmd_start" /\ ~HasRow(users, t.from)
QuotaReadFailed(t) == t.handler = "handle_photo" /\ t.uses_left = 0 /\ Uses(t.from) > 0
ProfileReadFailed(t) == t.handler = "cmd_profile" /\ t.say = "none"
StatsFailed(t) == t.handler = "cmd_stats" /\ t.say = "stats"
                     /\ t.data[1] # Cardinality(users)
DecrementFailed(t) == t.handler = "handle_photo" /\ "result" \in t.replies
                         /\ ~t.completed /\ t.exit = "returned"

C14_StorageFailureSurfaces ==
    \A t \in Done :
        /\ UpsertFailed(t) => ToldOfFailure(t) /\ "menu" \notin t.replies
        /\ QuotaReadFailed(t) => ToldOfFailure(t)
        /\ ProfileReadFailed(t) => ToldOfFailure(t)
        /\ StatsFailed(t) => ToldOfFailure(t) /\ "stats" \notin t.replies
        /\ DecrementFailed(t) => ToldOfFailure(t)

\* C15: a photo handler is started only for a photo whose sender is in
\* await_photo, and it is at the download, the inference call or anything
\* after them only with a value of uses_left > 0 read at its gate; a photo
\* whose sender is Idle starts no handler: nothing is written, no dialog state
\* changes, nothing is sent.
PastGate == {"processing", "download", "inference", "deliver", "channel", "error_reply",
             "delete"}
Arrived(T) == {t \in T : t.kind = "photo"}

C15_InferenceOnlyWhenAwaited ==
    [][/\ \A t \in PhotoTasks' :
             /\ t.kind = "photo"
             /\ (t.pc \in PastGate \/ t.completed \/ t.replies \cap {"result", "error"} # {})
                   => t.uses_left > 0
       /\ \A t \in Arrived(Tasks') \ Tasks :
             /\ t.handler = "handle_photo" => fsm[t.from] = await_photo
             /\ fsm[t.from] = Idle =>
                   /\ t.handler = "unhandled" /\ t.pc = "done"
                   /\ t.replies = {} /\ t.log = <<>>
                   /\ users' = users /\ fsm' = fsm]_vars

\* a photo of a user who is Idle and has free uses left was dropped
C15_Witness ==
    \E t \in Arrived(Tasks) :
        /\ t.handler = "unhandled" /\ t.pc = "done"
        /\ fsm[t.from] = Idle /\ Uses(t.from) > 0 /\ nSuccess[t.from] = 0

\* C16: a message with text that the administrator sends while in
\* await_broadcast is handled by process_broadcast, whatever the text, and
\* when that handling has ended the administrator is Idle.
C16_AnyTextIsBroadcast ==
    [][/\ \A t \in Tasks' :
             (Tasks = {} /\ t.from = ADMIN_ID /\ fsm[ADMIN_ID] = await_broadcast
                         /\ HasText(t.kind))
                 => t.handler = "process_broadcast"
       /\ \A t \in BroadcastTasks' :
             (HasText(t.kind) /\ t.pc = "done") => fsm'[t.from] = Idle]_vars

\* C17: a message without text handled by process_broadcast reads no user
\* list and attempts no delivery, and when its handling has ended the sender
\* is Idle and, unless the send failed, has been sent the warning.
C17_EmptyTextRejected ==
    \A t \in BroadcastTasks :
        ~HasText(t.kind) =>
            /\ t.snapshot = <<>> /\ t.log = <<>> /\ t.idx = 0
            /\ t.pc = "done" =>
                  /\ fsm[t.from] = Idle
                  /\ t.exit = "returned" => t.replies = {"warning"}

\* C18: when the handling of a message of user u by any handler has ended, u
\* has a row in the table and its last_active is the time of that message.
C18_EveryEventEnsuresUser ==
    \A t \in Done :
        t.handler # "unhandled" =>
            /\ HasRow(users, t.from)
            /\ RowOf(users, t.from).last_active = now

\* C19: no two broadcast runs are under way at the same time: while a run is
\* delivering, no message of the administrator starts another.
Running == {t \in BroadcastTasks : t.pc \in {"bc_send", "bc_sleep", "bc_channel", "bc_report"}}

C19_OneRunPerCommand ==
    /\ Cardinality(Running) <= 1
    /\ \A t \in Running : CopiesIn(t, tasks) = 1

\* C20: the dialog state of a user changes from await_broadcast to Idle only
\* in a step that ends a process_broadcast or a cmd_start of that user, and
\* from await_photo to Idle only in a step that ends a handle_photo or a
\* cmd_start of that user: the end of a handler of another state resets
\* neither.
Ends(T, u, H) == {t \in T : t.from = u /\ t.handler \in H /\ t.pc = "done"}

C20_LaterStateSurvives ==
    [][\A u \in UserIds :
          /\ (fsm[u] = await_broadcast /\ fsm'[u] = Idle)
                => Ends(Tasks', u, {"process_broadcast", "cmd_start"}) \ Tasks # {}
          /\ (fsm[u] = await_photo /\ fsm'[u] = Idle)
                => Ends(Tasks', u, {"handle_photo", "cmd_start"}) \ Tasks # {}]_vars

\* C21: a photo handling that has ended has delivered the analysis result
\* exactly when it has decremented the sender's uses_left, and has never
\* delivered both the result and the generic failure message.
C21_DeliveredIsCharged ==
    \A t \in PhotoTasks :
        /\ t.pc = "done" => ("result" \in t.replies <=> t.completed)
        /\ ~({"result", "error"} \subseteq t.replies)

\* C22: no user but the administrator is ever in await_broadcast, and every
\* handling by process_broadcast (so every broadcast delivery) is that of a
\* message of the administrator.
C22_OnlyAdminAwaitsBroadcast ==
    /\ \A u \in UserIds : fsm[u] = await_broadcast => u = ADMIN_ID
    /\ \A t \in BroadcastTasks : t.from = ADMIN_ID
    /\ \A t \in Tasks : (t.handler = "cmd_broadcast" /\ t.pc = "ask_text") => t.from = ADMIN_ID

\* while the administrator's run was delivering, another user's /broadcast
\* was refused
C22_Witness ==
    /\ \E t \in BroadcastTasks : t.log # <<>> /\ t.pc # "done"
    /\ \E t \in Tasks :
          /\ t.handler = "cmd_broadcast" /\ t.from # ADMIN_ID /\ t.pc = "done"
          /\ t.replies = {"no_access"} /\ fsm[t.from] # await_broadcast

\* C23: in every step, the dialog state of a user changes only if the step is
\* one of a handler of a message of that user; the row of a user is never
\* removed, is created (with 10 uses) only by a handler of that user, and its
\* uses_left changes only by -1 in a step in which a photo handler of that
\* user completes its analysis, or to 999 in a step of the administrator's
\* /activate naming that user.
Stepped == {t \in Tasks' : CopiesIn(t, tasks') > CopiesIn(t, tasks)}
Charged(u) == \E t \in Stepped :
                  t.handler = "handle_photo" /\ t.from = u /\ t.completed
                      /\ "result" \in t.replies
ActivatedBy(u) == \E t \in Stepped :
                      t.handler = "cmd_activate_user" /\ t.from = ADMIN_ID /\ t.arg = u

C23_FrameOfAnEvent ==
    [][\A u \in UserIds :
          /\ fsm'[u] # fsm[u] => \E t \in Stepped : t.from = u
          /\ HasRow(users, u) => HasRow(users', u)
          /\ (~HasRow(users, u) /\ HasRow(users', u)) =>
                /\ select_uses_left(users', u) = FREE_USES_LIMIT
                /\ \E t \in Stepped : t.from = u
          /\ (HasRow(users, u) /\ select_uses_left(users', u) # Uses(u)) =>
                \/ select_uses_left(users', u) = Uses(u) - 1 /\ Charged(u)
                \/ select_uses_left(users', u) = UNLIMITED /\ ActivatedBy(u)]_vars

\* the administrator has activated user 2, who is waiting to send a photo:
\* the administrator's own row and both dialog states are as they were
C23_Witness ==
    /\ \E t \in Tasks :
          /\ t.handler = "cmd_activate_user" /\ t.from = ADMIN_ID /\ t.pc = "done"
          /\ t.arg = SUBSCRIBER /\ "activated" \in t.replies
    /\ Uses(SUBSCRIBER) = UNLIMITED
    /\ HasRow(users, ADMIN_ID) /\ Uses(ADMIN_ID) = FREE_USES_LIMIT
    /\ fsm[SUBSCRIBER] = await_photo /\ fsm[ADMIN_ID] = Idle

====
